---- MODULE Spec2Model ----
(***************************************************************************)
(* thankunext: route discovery for a Next.js site.                         *)
(*                                                                         *)
(* ThankUNext.start() is a linear pipeline: parse_url, get_page_content,   *)
(* get_build_manifest_path, get_build_manifest_content,                    *)
(* parse_build_manifest_content, print.  Strings are modelled as sequences *)
(* of one-character strings so that startswith and the two regular         *)
(* expressions are computed character by character.                        *)
(***************************************************************************)
EXTENDS Integers, Sequences, FiniteSets

VARIABLES pc, address, url, page_response, page_content, build_manifest_path,
          build_manifest_url, manifest_response, build_manifest_content,
          paths, stdout, requests

vars == <<pc, address, url, page_response, page_content, build_manifest_path,
          build_manifest_url, manifest_response, build_manifest_content,
          paths, stdout, requests>>

----------------------------------------------------------------------------
(* Bounds of the model                                                     *)

MaxAddrChunks == 1
MaxPageChunks == 2
MaxManifestChunks == 2
MaxLocatorChunks == 4
MaxManifestLen == 7

----------------------------------------------------------------------------
(* Strings                                                                 *)

Quote == "\""
Newline == "\n"

SchemeHttp == <<"h", "t", "t", "p", ":", "/", "/">>
SchemeHttps == <<"h", "t", "t", "p", "s", ":", "/", "/">>
NextStaticPrefix == <<"/", "_", "n", "e", "x", "t", "/", "s", "t", "a", "t", "i", "c", "/">>
BuildManifestSuffix == <<"/", "_", "b", "u", "i", "l", "d", "M", "a", "n", "i", "f", "e", "s", "t", ".", "j", "s">>

SchemeErrorMsg == "Please include the protocol (http:// or https://) in the URL."
PageErrorMsg == "Error when accessing the URL: "
NotFoundMsg == "_buildManifest.js wasn't found. Is this site really running Next.js?"
ManifestErrorMsg == "Error accessing buildManifest content: "

(* \w, restricted to the ASCII word characters *)
WordChars ==
    {"a", "b", "c", "d", "e", "f", "g", "h", "i", "j", "k", "l", "m", "n", "o",
     "p", "q", "r", "s", "t", "u", "v", "w", "x", "y", "z",
     "A", "B", "C", "D", "E", "F", "G", "H", "I", "J", "K", "L", "M", "N", "O",
     "P", "Q", "R", "S", "T", "U", "V", "W", "X", "Y", "Z",
     "0", "1", "2", "3", "4", "5", "6", "7", "8", "9", "_"}

(* [\w-] *)
TokenChars == WordChars \cup {"-"}

PathCharsNoSlash == (WordChars \cup {"[", "]", ".", "-"})

(* [a-zA-Z0-9_/\[\]\.-] *)
PathChars == WordChars \cup {"/", "[", "]", ".", "-"}

RECURSIVE Cat(_)
Cat(ss) == IF ss = <<>> THEN <<>> ELSE Head(ss) \o Cat(Tail(ss))

SeqsUpTo(S, n) == UNION {[1..k -> S] : k \in 0..n}

Range(f) == {f[i] : i \in DOMAIN f}

Max(S) == CHOOSE m \in S : \A x \in S : x <= m

(* the literal lit occurs in s at position i *)
LitAt(s, i, lit) ==
    /\ i >= 1
    /\ i + Len(lit) - 1 <= Len(s)
    /\ \A j \in 1..Len(lit) : s[i + j - 1] = lit[j]

(* the k characters of s from position i on are all in C *)
AllIn(s, i, k, C) ==
    /\ i + k - 1 <= Len(s)
    /\ \A j \in i..(i + k - 1) : s[j] \in C

----------------------------------------------------------------------------
(* Python values                                                           *)

None == [some |-> FALSE, val |-> <<>>]
Some(v) == [some |-> TRUE, val |-> v]

(* `not v' for v a str or None: None and the empty string are falsy *)
Not(v) == ~v.some \/ v.val = <<>>

(* one call of print(): the text written is msg followed by arg and a newline *)
Output(msg, arg) == [msg |-> msg, arg |-> arg]

startswith(s, prefix) == LitAt(s, 1, prefix)

RECURSIVE join(_, _)
join(sep, ss) ==
    IF ss = <<>> THEN <<>>
    ELSE IF Len(ss) = 1 THEN ss[1]
    ELSE ss[1] \o sep \o join(sep, Tail(ss))

----------------------------------------------------------------------------
(* The methods of ThankUNext                                               *)
(* Each returns [ret |-> the value returned, out |-> the print() calls].   *)

parse_url_http_only(u) ==
    IF ~startswith(u, <<"h", "t", "t", "p">>)
    THEN [ret |-> None, out |-> <<Output(SchemeErrorMsg, <<>>)>>]
    ELSE [ret |-> Some(u), out |-> <<>>]

parse_url(u) ==
    IF ~startswith(u, SchemeHttp) /\ ~startswith(u, SchemeHttps)
    THEN [ret |-> None, out |-> <<Output(SchemeErrorMsg, <<>>)>>]
    ELSE [ret |-> Some(u), out |-> <<>>]

(* What requests.get hands back: a 2xx response with its text, a response  *)
(* with an error status (raise_for_status raises HTTPError), or no         *)
(* response at all (requests.get raises a RequestException).               *)
NoResponse == [kind |-> "none", text |-> <<>>, err |-> <<>>]
OkResponse(body) == [kind |-> "ok", text |-> body, err |-> <<>>]
HttpError(body, e) == [kind |-> "http_error", text |-> body, err |-> e]
TransportError(e) == [kind |-> "transport_error", text |-> <<>>, err |-> e]

get_page_content(resp) ==
    IF resp.kind = "ok"
    THEN [ret |-> Some(resp.text), out |-> <<>>]
    ELSE [ret |-> None, out |-> <<Output(PageErrorMsg, resp.err)>>]

get_build_manifest_content_no_raise(resp) ==
    IF resp.kind \in {"ok", "http_error"}
    THEN [ret |-> Some(resp.text), out |-> <<>>]
    ELSE [ret |-> None, out |-> <<Output(ManifestErrorMsg, resp.err)>>]

get_build_manifest_content(resp) ==
    IF resp.kind = "ok"
    THEN [ret |-> Some(resp.text), out |-> <<>>]
    ELSE [ret |-> None, out |-> <<Output(ManifestErrorMsg, resp.err)>>]

(* /_next/static/[\w-]+/_buildManifest\.js tried at position i: the length *)
(* of the match, 0 when there is none.  [\w-]+ is greedy: the longest run  *)
(* of token characters after which the rest of the pattern matches.        *)
ManifestPathMatchLen(s, i) ==
    IF ~LitAt(s, i, NextStaticPrefix) THEN 0
    ELSE LET t == i + Len(NextStaticPrefix)
             ks == {k \in 1..(Len(s) - t + 1) :
                       /\ AllIn(s, t, k, TokenChars)
                       /\ LitAt(s, t + k, BuildManifestSuffix)}
         IN IF ks = {} THEN 0
            ELSE Len(NextStaticPrefix) + Max(ks) + Len(BuildManifestSuffix)

(* re.search: the match at the first position where the pattern matches *)
RECURSIVE re_search(_, _)
re_search(s, i) ==
    IF i > Len(s) THEN None
    ELSE IF ManifestPathMatchLen(s, i) > 0
         THEN Some(SubSeq(s, i, i + ManifestPathMatchLen(s, i) - 1))
         ELSE re_search(s, i + 1)

RECURSIVE re_search_last(_, _)
re_search_last(s, i) ==
    IF i > Len(s) THEN None
    ELSE LET later == re_search_last(s, i + 1)
         IN IF later.some THEN later
            ELSE IF ManifestPathMatchLen(s, i) > 0
                 THEN Some(SubSeq(s, i, i + ManifestPathMatchLen(s, i) - 1))
                 ELSE None

get_build_manifest_path_last(body_content) == re_search_last(body_content, 1)

get_build_manifest_path(body_content) == re_search(body_content, 1)

(* "(/[a-zA-Z0-9_/\[\]\.-]+)" tried at position i: the length of the match *)
(* (quotes included), 0 when there is none.                                *)
QuotedPathMatchLen(s, i) ==
    IF ~LitAt(s, i, <<Quote, "/">>) THEN 0
    ELSE LET ks == {k \in 1..(Len(s) - i - 1) :
                       /\ AllIn(s, i + 2, k, PathChars)
                       /\ LitAt(s, i + 2 + k, <<Quote>>)}
         IN IF ks = {} THEN 0 ELSE 3 + Max(ks)

(* re.findall with one group: the group of every match, scanning left to   *)
(* right and resuming after the end of each match.                         *)
RECURSIVE findall(_, _)
findall(s, i) ==
    IF i > Len(s) THEN <<>>
    ELSE LET n == QuotedPathMatchLen(s, i)
         IN IF n > 0
            THEN <<SubSeq(s, i + 1, i + n - 2)>> \o findall(s, i + n)
            ELSE findall(s, i + 1)

parse_build_manifest_content(content) == Range(findall(content, 1))

build_manifest_url_stripped(u, path) ==
    IF u # <<>> /\ u[Len(u)] = "/" THEN SubSeq(u, 1, Len(u) - 1) \o path
    ELSE u \o path

(* url + build_manifest_path *)
build_manifest_url_of(u, path) == u \o path

(* the orders in which a set can be enumerated *)
Orders(S) == {o \in [1..Cardinality(S) -> S] : Range(o) = S}

----------------------------------------------------------------------------
(* Inputs: the command-line argument and what the network answers          *)

AddrChunks ==
    {SchemeHttp,
     SchemeHttps \o <<"a", ".", "i", "o">>,
     <<"h", "t", "t", "p", ":", "/">>,
     <<"f", "t", "p", ":", "/", "/", "a", ".", "i", "o">>,
     <<"a", ".", "i", "o">>}

Addresses == {Cat(c) : c \in SeqsUpTo(AddrChunks, MaxAddrChunks)}

Ref1 == NextStaticPrefix \o <<"a", "b", "c", "1", "2", "3">> \o BuildManifestSuffix
Ref2 == NextStaticPrefix \o <<"x", "-", "1">> \o BuildManifestSuffix

PageChunks == {Ref1, Ref2, <<"<", "p", ">">>}

PageBodies == {Cat(c) : c \in SeqsUpTo(PageChunks, MaxPageChunks)}

LocatorChunks ==
    {NextStaticPrefix, BuildManifestSuffix, Ref1, Ref2, <<"q", "_", "9">>, <<"<">>}

LocatorBodies == {Cat(c) : c \in SeqsUpTo(LocatorChunks, MaxLocatorChunks)}

ManifestChunks ==
    {<<Quote, "/", "f", "o", "o", Quote>>, <<Quote, "/", "b", "a", "r", Quote>>,
     <<",">>}

(* {"a":["/foo","/bar","/foo"]} *)
ExampleManifest ==
    <<"{", Quote, "a", Quote, ":", "[", Quote, "/", "f", "o", "o", Quote, ",",
      Quote, "/", "b", "a", "r", Quote, ",", Quote, "/", "f", "o", "o", Quote,
      "]", "}">>

(* ["/a","/b/[id]"] *)
ExampleManifest2 ==
    <<"[", Quote, "/", "a", Quote, ",", Quote, "/", "b", "/", "[", "i", "d", "]",
      Quote, "]">>

ManifestBodies ==
    {Cat(c) : c \in SeqsUpTo(ManifestChunks, MaxManifestChunks)}
        \cup {ExampleManifest, ExampleManifest2}

ManifestAlphabet == {Quote, "/", "a", ","}

ManifestTexts == SeqsUpTo(ManifestAlphabet, MaxManifestLen)

(* the text of an error response: <a href="/home"> *)
ErrorPage ==
    <<"<", "a", " ", "h", "r", "e", "f", "=", Quote, "/", "h", "o", "m", "e",
      Quote, ">">>

Err404 == <<"4", "0", "4">>
ErrTimeout == <<"t", "i", "m", "e", "o", "u", "t">>

PageResponses ==
    {OkResponse(b) : b \in PageBodies}
        \cup {HttpError(ErrorPage, Err404), TransportError(ErrTimeout)}

ManifestResponses ==
    {OkResponse(b) : b \in ManifestBodies}
        \cup {HttpError(ErrorPage, Err404), TransportError(ErrTimeout)}

NoPaths == [some |-> FALSE, val |-> {}]

----------------------------------------------------------------------------
(* ThankUNext.start()                                                      *)

Init ==
    /\ pc = "parse_url"
    /\ address \in Addresses
    /\ url = None
    /\ page_response = NoResponse
    /\ page_content = None
    /\ build_manifest_path = None
    /\ build_manifest_url = None
    /\ manifest_response = NoResponse
    /\ build_manifest_content = None
    /\ paths = NoPaths
    /\ stdout = <<>>
    /\ requests = <<>>

(* url = self.parse_url(args.url); if not url: return *)
ParseUrl ==
    /\ pc = "parse_url"
    /\ LET r == parse_url(address)
       IN /\ url' = r.ret
          /\ stdout' = stdout \o r.out
          /\ pc' = IF Not(r.ret) THEN "done" ELSE "get_page_content"
    /\ UNCHANGED <<address, page_response, page_content, build_manifest_path,
                   build_manifest_url, manifest_response,
                   build_manifest_content, paths, requests>>

(* page_content = self.get_page_content(url); if not page_content: return *)
GetPageContent ==
    /\ pc = "get_page_content"
    /\ \E resp \in PageResponses :
          LET r == get_page_content(resp)
          IN /\ requests' = Append(requests, [by |-> "get_page_content", url |-> url.val])
             /\ page_response' = resp
             /\ page_content' = r.ret
             /\ stdout' = stdout \o r.out
             /\ pc' = IF Not(r.ret) THEN "done" ELSE "get_build_manifest_path"
    /\ UNCHANGED <<address, url, build_manifest_path, build_manifest_url,
                   manifest_response, build_manifest_content, paths>>

GetBuildManifestPathNoReturn ==
    /\ pc = "get_build_manifest_path"
    /\ LET r == get_build_manifest_path(page_content.val)
       IN /\ build_manifest_path' = r
          /\ stdout' = IF Not(r) THEN Append(stdout, Output(NotFoundMsg, <<>>))
                       ELSE stdout
          /\ build_manifest_url' = Some(build_manifest_url_of(url.val, r.val))
          /\ pc' = "get_build_manifest_content"
    /\ UNCHANGED <<address, url, page_response, page_content, manifest_response,
                   build_manifest_content, paths, requests>>

(* build_manifest_path = self.get_build_manifest_path(page_content);       *)
(* if not build_manifest_path: print(...); return                          *)
(* build_manifest_url = url + build_manifest_path                          *)
GetBuildManifestPath ==
    /\ pc = "get_build_manifest_path"
    /\ LET r == get_build_manifest_path(page_content.val)
       IN /\ build_manifest_path' = r
          /\ IF Not(r)
             THEN /\ stdout' = Append(stdout, Output(NotFoundMsg, <<>>))
                  /\ build_manifest_url' = build_manifest_url
                  /\ pc' = "done"
             ELSE /\ stdout' = stdout
                  /\ build_manifest_url' = Some(build_manifest_url_of(url.val, r.val))
                  /\ pc' = "get_build_manifest_content"
    /\ UNCHANGED <<address, url, page_response, page_content, manifest_response,
                   build_manifest_content, paths, requests>>

(* build_manifest_content = self.get_build_manifest_content(url);          *)
(* if not build_manifest_content: return                                   *)
GetBuildManifestContent ==
    /\ pc = "get_build_manifest_content"
    /\ \E resp \in ManifestResponses :
          LET r == get_build_manifest_content(resp)
          IN /\ requests' = Append(requests, [by |-> "get_build_manifest_content",
                                              url |-> build_manifest_url.val])
             /\ manifest_response' = resp
             /\ build_manifest_content' = r.ret
             /\ stdout' = stdout \o r.out
             /\ pc' = IF Not(r.ret) THEN "done" ELSE "parse_build_manifest_content"
    /\ UNCHANGED <<address, url, page_response, page_content,
                   build_manifest_path, build_manifest_url, paths>>

(* paths = self.parse_build_manifest_content(build_manifest_content);      *)
(* print("\n".join(paths)), the set enumerated in any order                *)
ParseBuildManifestContent ==
    /\ pc = "parse_build_manifest_content"
    /\ LET ps == parse_build_manifest_content(build_manifest_content.val)
       IN /\ paths' = [some |-> TRUE, val |-> ps]
          /\ \E o \in Orders(ps) :
                stdout' = Append(stdout, Output("", join(<<Newline>>, o)))
          /\ pc' = "done"
    /\ UNCHANGED <<address, url, page_response, page_content,
                   build_manifest_path, build_manifest_url, manifest_response,
                   build_manifest_content, requests>>

Next ==
    \/ ParseUrl
    \/ GetPageContent
    \/ GetBuildManifestPath
    \/ GetBuildManifestContent
    \/ ParseBuildManifestContent

Spec == Init /\ [][Next]_vars

----------------------------------------------------------------------------
(* get_build_manifest_path called on its own                               *)

InitLocate ==
    /\ pc = "call_get_build_manifest_path"
    /\ address = <<>>
    /\ url = None
    /\ page_response = NoResponse
    /\ page_content \in {Some(b) : b \in LocatorBodies}
    /\ build_manifest_path = None
    /\ build_manifest_url = None
    /\ manifest_response = NoResponse
    /\ build_manifest_content = None
    /\ paths = NoPaths
    /\ stdout = <<>>
    /\ requests = <<>>

CallGetBuildManifestPath ==
    /\ pc = "call_get_build_manifest_path"
    /\ build_manifest_path' = get_build_manifest_path(page_content.val)
    /\ pc' = "returned"
    /\ UNCHANGED <<address, url, page_response, page_content, build_manifest_url,
                   manifest_response, build_manifest_content, paths, stdout,
                   requests>>

NextLocate == CallGetBuildManifestPath

SpecLocate == InitLocate /\ [][NextLocate]_vars

----------------------------------------------------------------------------
(* parse_build_manifest_content called on its own                          *)

InitExtract ==
    /\ pc = "call_parse_build_manifest_content"
    /\ address = <<>>
    /\ url = None
    /\ page_response = NoResponse
    /\ page_content = None
    /\ build_manifest_path = None
    /\ build_manifest_url = None
    /\ manifest_response = NoResponse
    /\ build_manifest_content \in {Some(t) : t \in ManifestTexts}
    /\ paths = NoPaths
    /\ stdout = <<>>
    /\ requests = <<>>

CallParseBuildManifestContent ==
    /\ pc = "call_parse_build_manifest_content"
    /\ paths' = [some |-> TRUE,
                 val |-> parse_build_manifest_content(build_manifest_content.val)]
    /\ pc' = "returned"
    /\ UNCHANGED <<address, url, page_response, page_content,
                   build_manifest_path, build_manifest_url, manifest_response,
                   build_manifest_content, stdout, requests>>

NextExtract == CallParseBuildManifestContent

SpecExtract == InitExtract /\ [][NextExtract]_vars

----------------------------------------------------------------------------
(* Vocabulary of the properties                                            *)

HasPrefix(s, prefix) ==
    Len(s) >= Len(prefix) /\ SubSeq(s, 1, Len(prefix)) = prefix

HasScheme(a) == HasPrefix(a, SchemeHttp) \/ HasPrefix(a, SchemeHttps)

FetchErrors == {"http_error", "transport_error"}

Diagnostics == {SchemeErrorMsg, PageErrorMsg, NotFoundMsg, ManifestErrorMsg}

(* s[i..j] has the form /_next/static/<token>/_buildManifest.js *)
IsManifestPathAt(s, i, j) ==
    LET t == i + Len(NextStaticPrefix)
        e == j - Len(BuildManifestSuffix) + 1
    IN /\ 1 <= i /\ j <= Len(s)
       /\ t < e
       /\ LitAt(s, i, NextStaticPrefix)
       /\ LitAt(s, e, BuildManifestSuffix)
       /\ \A m \in t..(e - 1) : s[m] \in TokenChars

ManifestPathOccurrences(s) ==
    {ij \in {i \in 1..Len(s) : s[i] = "/"} \X {j \in 1..Len(s) : s[j] = "s"} :
        IsManifestPathAt(s, ij[1], ij[2])}

ContainsManifestPath(s) == ManifestPathOccurrences(s) # {}

(* s[i..j] is a double-quoted literal: quote, slash, one or more allowed   *)
(* characters, quote                                                       *)
IsQuotedPathAt(s, i, j) ==
    /\ 1 <= i /\ j <= Len(s)
    /\ j - i >= 3
    /\ s[i] = Quote /\ s[j] = Quote /\ s[i + 1] = "/"
    /\ \A m \in (i + 2)..(j - 1) :
          s[m] \in WordChars \cup {"/", "[", "]", ".", "-"}

QuotedPathOccurrences(s) ==
    {ij \in (1..Len(s)) \X (1..Len(s)) : IsQuotedPathAt(s, ij[1], ij[2])}

QuotedPathLiterals(s) ==
    {SubSeq(s, ij[1] + 1, ij[2] - 1) : ij \in QuotedPathOccurrences(s)}

(* the number of occurrences chained before occurrence ij, each one's      *)
(* closing quote being the opening quote of the next                       *)
RECURSIVE ChainBefore(_, _)
ChainBefore(s, ij) ==
    LET prev == {o \in QuotedPathOccurrences(s) : o[2] = ij[1]}
    IN IF prev = {} THEN 0 ELSE 1 + ChainBefore(s, CHOOSE o \in prev : TRUE)

RouteListOutputs == {i \in 1..Len(stdout) : stdout[i].msg = ""}

RoutePathWritten == \E i \in RouteListOutputs : stdout[i].arg # <<>>

RouteListPrinted ==
    /\ paths.some
    /\ \E o \in Orders(paths.val) : stdout = <<Output("", join(<<Newline>>, o))>>

DiagnosticPrinted == Len(stdout) = 1 /\ stdout[1].msg \in Diagnostics

InvalidScheme == pc # "parse_url" /\ ~HasScheme(address)
PageFetchError == page_response.kind \in FetchErrors
ManifestNotFound ==
    /\ pc = "done"
    /\ page_response.kind = "ok"
    /\ ~ContainsManifestPath(page_response.text)
ManifestFetchError == manifest_response.kind \in FetchErrors

----------------------------------------------------------------------------
(* Properties                                                              *)

C2_EveryRunPrints ==
    pc = "done" => (RouteListPrinted \/ DiagnosticPrinted)

(* C3: when the page was fetched and its body contains no                  *)
(* /_next/static/<token>/_buildManifest.js (the empty body included), the  *)
(* locator yields no match and the run halts having printed the            *)
(* "wasn't found" message, without the manifest fetch.                     *)
C3_NoMatchPrintsNotFound ==
    ManifestNotFound =>
        /\ build_manifest_path = None
        /\ stdout = <<Output(NotFoundMsg, <<>>)>>
        /\ Len(requests) = 1
        /\ manifest_response = NoResponse

(* C4: a run issues at most two GET requests, each at most once; the page  *)
(* fetch comes first, and the manifest fetch is issued only after the      *)
(* address passed validation, the page fetch succeeded and the locator     *)
(* found a manifest path.                                                  *)
C4_AtMostTwoRequestsInOrder ==
    /\ Len(requests) <= 2
    /\ Len(requests) >= 1 =>
          /\ requests[1].by = "get_page_content"
          /\ HasScheme(address)
    /\ Len(requests) = 2 =>
          /\ requests[2].by = "get_build_manifest_content"
          /\ page_response.kind = "ok"
          /\ ContainsManifestPath(page_response.text)
          /\ build_manifest_path.some
    /\ PageFetchError => pc = "done" /\ Len(requests) = 1
    /\ ManifestFetchError => pc = "done" /\ Len(requests) = 2

C4_Witness ==
    /\ pc = "done"
    /\ Len(requests) = 2
    /\ manifest_response.kind = "transport_error"

(* C5: no partial results: in a run in which a step failed (invalid        *)
(* scheme, page fetch error, manifest path not found, manifest fetch       *)
(* error) no route list is written; route paths are written only when all  *)
(* four steps succeeded.                                                   *)
C5_NoPartialResults ==
    /\ (InvalidScheme \/ PageFetchError \/ ManifestNotFound \/ ManifestFetchError)
          => RouteListOutputs = {}
    /\ RoutePathWritten =>
          /\ HasScheme(address)
          /\ page_response.kind = "ok"
          /\ ContainsManifestPath(page_response.text)
          /\ manifest_response.kind = "ok"

C5_Witness ==
    /\ pc = "done"
    /\ manifest_response.kind = "http_error"
    /\ QuotedPathLiterals(manifest_response.text) # {}
    /\ ~RoutePathWritten

(* C6: each failure is reported at its own step by its own diagnostic and  *)
(* halts the run: in every failing run exactly one diagnostic is printed,  *)
(* that of the first step that failed, and no later step runs.             *)
C6_OneDiagnosticPerFailure ==
    /\ InvalidScheme =>
          /\ pc = "done"
          /\ stdout = <<Output(SchemeErrorMsg, <<>>)>>
          /\ requests = <<>>
    /\ PageFetchError =>
          /\ pc = "done"
          /\ stdout = <<Output(PageErrorMsg, page_response.err)>>
          /\ build_manifest_path = None
          /\ Len(requests) = 1
    /\ ManifestNotFound =>
          /\ stdout = <<Output(NotFoundMsg, <<>>)>>
          /\ Len(requests) = 1
    /\ ManifestFetchError =>
          /\ pc = "done"
          /\ stdout = <<Output(ManifestErrorMsg, manifest_response.err)>>
          /\ paths = NoPaths

C8_EmptySetPrintsNothing ==
    (/\ pc = "done"
     /\ manifest_response.kind = "ok"
     /\ QuotedPathLiterals(manifest_response.text) = {})
        => /\ paths.some => paths.val = {}
           /\ stdout = <<>>

(* C9: get_build_manifest_path returns the leftmost substring of the form  *)
(* /_next/static/<token>/_buildManifest.js, exactly, and no match when     *)
(* there is none; later occurrences do not influence the result.           *)
C9_ReturnsFirstOccurrence ==
    pc = "returned" =>
        LET body == page_content.val
            occ == ManifestPathOccurrences(body)
        IN IF occ = {} THEN build_manifest_path = None
           ELSE /\ build_manifest_path.some
                /\ \E ij \in occ :
                      /\ build_manifest_path.val = SubSeq(body, ij[1], ij[2])
                      /\ \A o \in occ : ij[1] <= o[1]

C9_Witness ==
    /\ pc = "returned"
    /\ build_manifest_path = Some(Ref2)
    /\ \E ij \in ManifestPathOccurrences(page_content.val) :
          SubSeq(page_content.val, ij[1], ij[2]) = Ref1

(* C10: the URL of the manifest fetch is the address given on the command  *)
(* line, unchanged, followed by the first manifest path of the page; the   *)
(* validated address is never modified.                                    *)
C10_ManifestUrlIsAddressPlusPath ==
    /\ url.some => url.val = address
    /\ \A i \in 1..Len(requests) :
          /\ requests[i].by = "get_page_content" => requests[i].url = address
          /\ requests[i].by = "get_build_manifest_content" =>
                \E ij \in ManifestPathOccurrences(page_response.text) :
                   /\ \A o \in ManifestPathOccurrences(page_response.text) :
                         ij[1] <= o[1]
                   /\ requests[i].url =
                         address \o SubSeq(page_response.text, ij[1], ij[2])

C10_Witness ==
    /\ Len(requests) = 2
    /\ address[Len(address)] = "/"
    /\ manifest_response.kind = "ok"

====
